---- MODULE Spec2Model ----
(***************************************************************************)
(* Model of the external sorter (src/lib.rs), its command-line record type *)
(* (src/main.rs) and the equal-run splitter (src/split.rs).                *)
(*                                                                         *)
(* A record is a Line: a string, modelled as a sequence of byte values.    *)
(* A file is the sequence of bytes written to it.  The pool is modelled by *)
(* the table of submitted jobs: a job is queued, then executed step by     *)
(* step by one of num_threads anonymous workers, then done.                *)
(***************************************************************************)
EXTENDS Integers, Sequences, FiniteSets, TLC

\* ------------------------------------------------------------------------
\* Bounds of the model
\* ------------------------------------------------------------------------
MaxLen == 3
MaxMerge == 2
MaxThreads == 2
MaxSplitSize == 2
MaxFaults == 2
MaxStage == 4
MaxSources == 2
MaxRun == 2

\* The records fed to the sorter: "", "b" and "ab" (different lengths, and the
\* longer one is the smaller one).
Records == { <<>>, <<98>>, <<97, 98>> }

\* ------------------------------------------------------------------------
\* Line codec and line files
\* ------------------------------------------------------------------------
NL == 10
CR == 13

\* impl IntoLine for Line
line_len(r) == Len(r)
into_line(r) == r
\* impl FromLine for Line
from_line(line) == line

\* #[derive(Ord)] struct Line(String): byte-wise lexicographic order
RECURSIVE LineLeq(_, _)
LineLeq(a, b) ==
    IF a = <<>> THEN TRUE
    ELSE IF b = <<>> THEN FALSE
    ELSE IF a[1] # b[1] THEN a[1] < b[1]
    ELSE LineLeq(Tail(a), Tail(b))

\* Variant: equal records are ordered by descending source index
PairLeqDesc(p, q) ==
    IF p[1] # q[1] THEN LineLeq(p[1], q[1]) ELSE p[2] >= q[2]

\* (data, idx) tuples held by the merge heap: derived Ord of the pair
PairLeq(p, q) ==
    IF p[1] # q[1] THEN LineLeq(p[1], q[1]) ELSE p[2] <= q[2]

\* line = data.into_line() + "\n"; write_all(line.as_bytes())
WriteLine(bytes, r) == bytes \o into_line(r) \o <<NL>>

RECURSIVE WriteAll(_, _)
WriteAll(bytes, recs) ==
    IF recs = <<>> THEN bytes
    ELSE WriteAll(WriteLine(bytes, Head(recs)), Tail(recs))

\* BufRead::lines() strips the "\n" and one "\r" before it
StripCR(line) ==
    IF line # <<>> /\ line[Len(line)] = CR
    THEN SubSeq(line, 1, Len(line) - 1) ELSE line

RECURSIVE LinesFrom(_, _, _)
LinesFrom(bytes, i, cur) ==
    IF i > Len(bytes) THEN (IF cur = <<>> THEN <<>> ELSE <<cur>>)
    ELSE IF bytes[i] = NL
         THEN <<StripCR(cur)>> \o LinesFrom(bytes, i + 1, <<>>)
         ELSE LinesFrom(bytes, i + 1, Append(cur, bytes[i]))

\* file_as_lines(path) followed by map(from_line): the records of a file
file_as_lines(bytes) ==
    LET ls == LinesFrom(bytes, 1, <<>>)
    IN  [i \in 1..Len(ls) |-> from_line(ls[i])]

\* ------------------------------------------------------------------------
\* data_vec.sort()
\* ------------------------------------------------------------------------
RECURSIVE Insert(_, _)
Insert(sorted, r) ==
    IF sorted = <<>> THEN <<r>>
    ELSE IF LineLeq(Head(sorted), r)
         THEN <<Head(sorted)>> \o Insert(Tail(sorted), r)
         ELSE <<r>> \o sorted

\* Variant: the vector is written as it came
SortVecKeep(v) == v

RECURSIVE SortVec(_)
SortVec(v) ==
    IF v = <<>> THEN <<>>
    ELSE Insert(SortVec(SubSeq(v, 1, Len(v) - 1)), v[Len(v)])

\* ------------------------------------------------------------------------
\* The heap loop of a merge job: pop the least (data, idx), write data,
\* push the next record of source idx
\* ------------------------------------------------------------------------
HeapOf(srcs) == { <<srcs[i][1], i>> : i \in { k \in DOMAIN srcs : srcs[k] # <<>> } }

\* Variant: the heap is ordered by the source index alone
HeapPopByIndex(heap) == CHOOSE p \in heap : \A q \in heap : p[2] <= q[2]

HeapPop(heap) == CHOOSE p \in heap : \A q \in heap : PairLeq(p, q)

\* The (data, idx) tuples in the order the loop pops them
\* (srcs is bound once by s \in {srcs}: TLC then evaluates the argument of
\* the recursive call once, not once per use)
RECURSIVE MergePops(_)
MergePops(srcs) ==
    CHOOSE out \in
        { IF HeapOf(s) = {} THEN <<>>
          ELSE LET p == HeapPop(HeapOf(s))
               IN  <<p>> \o MergePops([s EXCEPT ![p[2]] = Tail(@)])
          : s \in {srcs} } : TRUE

\* The records in the order the loop writes them
MergeLoop(srcs) ==
    CHOOSE out \in
        { [n \in DOMAIN pops |-> pops[n][1]] : pops \in {MergePops(srcs)} } : TRUE

\* ------------------------------------------------------------------------
\* State of the sorter
\* ------------------------------------------------------------------------
VARIABLES
    config,       \* Sort.config: num_merge, num_threads, max_split_size
    stage_num,    \* Sort.stage_num
    file_num,     \* Sort.file_num
    result_cell,  \* Sort.result_cell: <<>> is Ok(()), <<j>> the Err of job j
    cell_lock,    \* holder of the mutex of result_cell: 0 (free) or a job
    files,        \* the spill directory: <<stage, num>> |-> bytes of the file
    jobs,         \* the jobs given to the pool, in submission order
    pc,           \* position of the coordinator inside Sort::sort
    iter,         \* split_invoke: the rest of the input iterator
    cur_vec,      \* split_invoke: cur_vec
    cur_size,     \* split_invoke: cur_size
    result,       \* sort: result of split_invoke / merge_invoke
    count,        \* merge_invoke: count
    prev_stage,   \* merge_invoke: prev_stage
    first,        \* merge_invoke: first
    lines,        \* SortedIter.lines: <<>> is None, <<n>> is n lines read
    ret,          \* what sort returned: "none", "Ok" or "Err"
    input,        \* the sequence given to sort
    output,       \* the records yielded by the SortedIter so far
    faults        \* number of I/O errors that have occurred

sortVars == <<config, stage_num, file_num, result_cell, cell_lock, files,
              jobs, pc, iter, cur_vec, cur_size, result, count, prev_stage,
              first, lines, ret, input, output, faults>>

\* State of the equal-run splitter (src/split.rs)
VARIABLES
    sp_input,     \* the sequence given to split()
    sp_iter,      \* SplitIter.iter: the rest of the source iterator
    sp_last,      \* SplitIter.last: <<>> is None, <<r>> is Some(r)
    sp_groups,    \* the items returned by SplitIter::next, in order
    sp_faults     \* number of I/O errors that have occurred in the splitter

splitVars == <<sp_input, sp_iter, sp_last, sp_groups, sp_faults>>

vars == <<sortVars, splitVars>>

RECURSIVE SeqsUpTo(_)
SeqsUpTo(n) ==
    IF n = 0 THEN { <<>> }
    ELSE LET shorter == SeqsUpTo(n - 1)
         IN  shorter \cup { Append(s, r) : s \in { t \in shorter : Len(t) = n - 1 },
                                           r \in Records }

Inputs == SeqsUpTo(MaxLen)

\* (one thread, and the largest number of threads)
Configs == [num_merge : 2..MaxMerge, num_threads : {1, MaxThreads},
            max_split_size : 1..MaxSplitSize]

NoFiles == << >>

\* Sort::new followed by the call of sort(iter)
SortInit ==
    /\ config \in Configs
    /\ input \in Inputs
    /\ stage_num = 0
    /\ file_num = 0
    /\ result_cell = <<>>
    /\ cell_lock = 0
    /\ files = NoFiles
    /\ jobs = <<>>
    /\ pc = "split"
    /\ iter = input
    /\ cur_vec = <<>>
    /\ cur_size = 0
    /\ result = "Ok"
    /\ count = 0
    /\ prev_stage = 0
    /\ first = 0
    /\ lines = <<>>
    /\ ret = "none"
    /\ output = <<>>
    /\ faults = 0

\* ------------------------------------------------------------------------
\* Helpers of the coordinator
\* ------------------------------------------------------------------------
\* Variant: the files of a stage are numbered from one
GetCurFileNameFromOne == <<stage_num, file_num + 1>>

\* get_cur_file_name: the name f<stage_num>-<file_num>.txt
get_cur_file_name == <<stage_num, file_num>>

\* File::create(path): a new, empty file (an existing one is truncated)
FileCreate(fs, name) == (name :> <<>>) @@ fs

\* fs::remove_file(path)
RemoveFile(fs, name) == [n \in (DOMAIN fs) \ {name} |-> fs[n]]

\* Variant: the directory is leaked
TempDirKept(fs) == fs

\* TempDir is dropped with the Sort: the directory and its content go
TempDirDrop(fs) == NoFiles

\* An I/O error may happen while fewer than MaxFaults have happened
MayFail == faults < MaxFaults

Job(kind, data, stage, from, to, out) ==
    [kind |-> kind, data |-> data, stage |-> stage, first |-> from,
     last |-> to, out |-> out, pc |-> "queued", num |-> from,
     res |-> "none"]

\* Variant: next_file() is called before File::create, so that a failed
\* creation has taken a number
SplitAddFileNextFirst(data_vec, fail) ==
    IF data_vec = <<>>
    THEN /\ ~fail
         /\ UNCHANGED <<files, file_num, jobs, faults>>
    ELSE IF fail
    THEN /\ MayFail
         /\ faults' = faults + 1
         /\ file_num' = file_num + 1
         /\ UNCHANGED <<files, jobs>>
    ELSE /\ files' = FileCreate(files, get_cur_file_name)
         /\ file_num' = file_num + 1
         /\ jobs' = Append(jobs, Job("split", data_vec, stage_num, 0, 0,
                                     get_cur_file_name))
         /\ UNCHANGED faults

\* Variant: an empty data_vec is given a file and a job as well
SplitAddFileAny(data_vec, fail) ==
    IF fail
    THEN /\ MayFail
         /\ faults' = faults + 1
         /\ UNCHANGED <<files, file_num, jobs>>
    ELSE /\ files' = FileCreate(files, get_cur_file_name)
         /\ file_num' = file_num + 1
         /\ jobs' = Append(jobs, Job("split", data_vec, stage_num, 0, 0,
                                     get_cur_file_name))
         /\ UNCHANGED faults

\* split_add_file(data_vec); fail says that File::create fails
split_add_file(data_vec, fail) ==
    IF data_vec = <<>>
    THEN /\ ~fail
         /\ UNCHANGED <<files, file_num, jobs, faults>>
    ELSE IF fail
    THEN /\ MayFail
         /\ faults' = faults + 1
         /\ UNCHANGED <<files, file_num, jobs>>
    ELSE /\ files' = FileCreate(files, get_cur_file_name)
         /\ file_num' = file_num + 1
         /\ jobs' = Append(jobs, Job("split", data_vec, stage_num, 0, 0,
                                     get_cur_file_name))
         /\ UNCHANGED faults

\* Variant: a range of a single file is skipped like the empty range
MergeAddFilesSkipSingle(stage, from, to, fail) ==
    IF to - from <= 1
    THEN /\ ~fail
         /\ UNCHANGED <<files, file_num, jobs, faults>>
    ELSE IF fail
    THEN /\ MayFail
         /\ faults' = faults + 1
         /\ UNCHANGED <<files, file_num, jobs>>
    ELSE /\ files' = FileCreate(files, get_cur_file_name)
         /\ file_num' = file_num + 1
         /\ jobs' = Append(jobs, Job("merge", <<>>, stage, from, to,
                                     get_cur_file_name))
         /\ UNCHANGED faults

\* merge_add_files(stage, first, last); fail says that File::create fails
merge_add_files(stage, from, to, fail) ==
    IF from = to
    THEN /\ ~fail
         /\ UNCHANGED <<files, file_num, jobs, faults>>
    ELSE IF fail
    THEN /\ MayFail
         /\ faults' = faults + 1
         /\ UNCHANGED <<files, file_num, jobs>>
    ELSE /\ files' = FileCreate(files, get_cur_file_name)
         /\ file_num' = file_num + 1
         /\ jobs' = Append(jobs, Job("merge", <<>>, stage, from, to,
                                     get_cur_file_name))
         /\ UNCHANGED faults

Min(a, b) == IF a < b THEN a ELSE b

\* Variant: the range is taken to include its upper end
MergeLastInclusive(cnt, from, length) == Min(cnt, from + length + 1)

\* Variant: every range holds one file
MergeLastOne(cnt, from, length) == Min(cnt, from + 1)

\* merge_invoke: last = cmp::min(count, first + length)
MergeLast(cnt, from, length) == Min(cnt, from + length)

\* Variant: the loop stops one file too early
MoreStagesTwo(fnum) == fnum > 2

\* sort: while *self.file_num.borrow() > 1
MoreStages(fnum) == fnum > 1

\* ------------------------------------------------------------------------
\* The coordinator: Sort::sort
\* ------------------------------------------------------------------------
\* One turn of the for loop of split_invoke
SplitInvokeStep ==
    /\ pc = "split"
    /\ iter # <<>>
    /\ LET data == Head(iter)
           size == line_len(data)
       IN  IF cur_size + size > config.max_split_size
           THEN \E fail \in BOOLEAN :
                  /\ split_add_file(cur_vec, fail)
                  /\ IF fail
                     THEN /\ result' = "Err"
                          /\ pc' = "join"
                          /\ UNCHANGED <<iter, cur_vec, cur_size>>
                     ELSE /\ cur_vec' = <<data>>
                          /\ cur_size' = size
                          /\ iter' = Tail(iter)
                          /\ UNCHANGED <<result, pc>>
           ELSE /\ cur_vec' = Append(cur_vec, data)
                /\ cur_size' = cur_size + size
                /\ iter' = Tail(iter)
                /\ UNCHANGED <<files, file_num, jobs, faults, result, pc>>
    /\ UNCHANGED <<splitVars, config, stage_num, result_cell, cell_lock, count,
                   prev_stage, first, lines, ret, input, output>>

\* The input is exhausted: split_add_file(cur_vec) and return
SplitInvokeEnd ==
    /\ pc = "split"
    /\ iter = <<>>
    /\ \E fail \in BOOLEAN :
         /\ split_add_file(cur_vec, fail)
         /\ result' = IF fail THEN "Err" ELSE "Ok"
    /\ pc' = "join"
    /\ cur_vec' = <<>>
    /\ UNCHANGED <<splitVars, config, stage_num, result_cell, cell_lock, iter, cur_size,
                   count, prev_stage, first, lines, ret, input, output>>

\* Variant: the join gives up waiting once an error is stored
PoolIdleOrError ==
    \/ \A j \in DOMAIN jobs : jobs[j].pc = "done"
    \/ result_cell # <<>>

\* Variant: the join does not wait for the jobs
PoolNoWait == TRUE

\* pool.join(): no job is queued or active
PoolIdle == \A j \in DOMAIN jobs : jobs[j].pc = "done"

\* Variant: the Err of split_invoke or merge_invoke is returned at once,
\* before the join
JoinPoolAfterResult ==
    /\ pc = "join"
    /\ cell_lock = 0
    /\ PoolIdle \/ result = "Err"
    /\ result_cell' = <<>>
    /\ IF result_cell # <<>> \/ result = "Err"
       THEN /\ ret' = "Err"
            /\ pc' = "returned"
            /\ files' = TempDirDrop(files)
       ELSE /\ pc' = "loop"
            /\ UNCHANGED <<ret, files>>
    /\ UNCHANGED <<splitVars, config, stage_num, file_num, cell_lock, jobs, iter,
                   cur_vec, cur_size, result, count, prev_stage, first,
                   lines, input, output, faults>>

\* self.join_pool()? and the test of result that follows it in sort
JoinPool ==
    /\ pc = "join"
    /\ PoolIdle
    /\ cell_lock = 0
    /\ result_cell' = <<>>
    /\ IF result_cell # <<>> \/ result = "Err"
       THEN /\ ret' = "Err"
            /\ pc' = "returned"
            /\ files' = TempDirDrop(files)
       ELSE /\ pc' = "loop"
            /\ UNCHANGED <<ret, files>>
    /\ UNCHANGED <<splitVars, config, stage_num, file_num, cell_lock, jobs, iter,
                   cur_vec, cur_size, result, count, prev_stage, first,
                   lines, input, output, faults>>

\* merge_invoke up to its loop: count, prev_stage, next_stage()
MergeInvokeBegin ==
    /\ pc = "loop"
    /\ MoreStages(file_num)
    /\ stage_num < MaxStage
    /\ count' = file_num
    /\ prev_stage' = stage_num
    /\ file_num' = 0
    /\ stage_num' = stage_num + 1
    /\ first' = 0
    /\ pc' = "merge"
    /\ UNCHANGED <<splitVars, config, result_cell, cell_lock, files, jobs, iter,
                   cur_vec, cur_size, result, lines, ret, input, output,
                   faults>>

\* One turn of the while loop of merge_invoke
MergeInvokeStep ==
    /\ pc = "merge"
    /\ first # count
    /\ LET last == MergeLast(count, first, config.num_merge)
       IN  \E fail \in BOOLEAN :
             /\ merge_add_files(prev_stage, first, last, fail)
             /\ IF fail
                THEN /\ result' = "Err"
                     /\ pc' = "join"
                     /\ UNCHANGED first
                ELSE /\ first' = last
                     /\ UNCHANGED <<result, pc>>
    /\ UNCHANGED <<splitVars, config, stage_num, result_cell, cell_lock, iter, cur_vec,
                   cur_size, count, prev_stage, lines, ret, input, output>>

\* The while loop of merge_invoke ends: Ok(())
MergeInvokeEnd ==
    /\ pc = "merge"
    /\ first = count
    /\ result' = "Ok"
    /\ pc' = "join"
    /\ UNCHANGED <<splitVars, config, stage_num, file_num, result_cell, cell_lock,
                   files, jobs, iter, cur_vec, cur_size, count, prev_stage,
                   first, lines, ret, input, output, faults>>

\* Variant: the iterator does not hold the Sort, which is dropped at return
AsIterFilesDropped(fs) == NoFiles

\* as_iter: SortedIter {_sort: self, lines}: the Sort and its TempDir move
\* into the iterator
AsIterFiles(fs) == fs

\* self.as_iter(), which ends sort
AsIter ==
    /\ pc = "loop"
    /\ ~MoreStages(file_num)
    /\ \/ /\ file_num = 0
          /\ lines' = <<>>
          /\ ret' = "Ok"
          /\ pc' = "iter"
          /\ files' = AsIterFiles(files)
          /\ UNCHANGED faults
       \/ /\ file_num = 1
          /\ <<stage_num, 0>> \in DOMAIN files
          /\ lines' = <<0>>
          /\ ret' = "Ok"
          /\ pc' = "iter"
          /\ files' = AsIterFiles(files)
          /\ UNCHANGED faults
       \/ /\ file_num = 1
          /\ \/ <<stage_num, 0>> \notin DOMAIN files /\ UNCHANGED faults
             \/ MayFail /\ faults' = faults + 1
          /\ ret' = "Err"
          /\ pc' = "returned"
          /\ files' = TempDirDrop(files)
          /\ UNCHANGED lines
       \/ /\ file_num > 1
          /\ pc' = "panic"
          /\ files' = TempDirDrop(files)
          /\ UNCHANGED <<lines, ret, faults>>
    /\ UNCHANGED <<splitVars, config, stage_num, file_num, result_cell, cell_lock, jobs,
                   iter, cur_vec, cur_size, result, count, prev_stage, first,
                   input, output>>


\* ------------------------------------------------------------------------
\* The workers of the pool
\* ------------------------------------------------------------------------
Active(j) == jobs[j].pc \notin {"queued", "done"}

SetPc(j, p) == [jobs EXCEPT ![j].pc = p]

\* Variant: the error of a write or of the flush is dropped and the job goes
\* on to remove its sources
JobReturnsWriteIgnored(j, r) ==
    IF jobs[j].pc = "write" /\ r = "Err"
    THEN [jobs EXCEPT ![j].pc = "remove", ![j].num = jobs[j].first]
    ELSE [jobs EXCEPT ![j].pc = IF r = "Ok" THEN "done" ELSE "failed",
                      ![j].res = r]

\* The closure f() of job j returns Ok(()) or Err(err) to add_to_pool
JobReturns(j, r) ==
    [jobs EXCEPT ![j].pc = IF r = "Ok" THEN "done" ELSE "failed",
                 ![j].res = r]

\* The bytes of a file; a reader that was opened keeps reading
SrcBytes(name) == IF name \in DOMAIN files THEN files[name] ELSE <<>>

\* The writer of job j has written bytes to its file
Written(j, bytes) ==
    IF jobs[j].out \in DOMAIN files
    THEN [files EXCEPT ![jobs[j].out] = bytes] ELSE files

\* What a job leaves in its file when a write or a flush fails
Prefixes(bytes) == { SubSeq(bytes, 1, n) : n \in 0..Len(bytes) }

\* ThreadPool: a free worker takes the job at the head of the queue
JobStart(j) ==
    /\ jobs[j].pc = "queued"
    /\ \A i \in 1..(j - 1) : jobs[i].pc # "queued"
    /\ Cardinality({ i \in DOMAIN jobs : Active(i) }) < config.num_threads

\* The closure of split_add_file: sort, write every line, flush
SplitJobBytes(data_vec) == WriteAll(<<>>, SortVec(data_vec))

\* A worker takes split job j and runs its closure
SplitJob(j) ==
    /\ jobs[j].kind = "split"
    /\ JobStart(j)
    /\ LET bytes == SplitJobBytes(jobs[j].data)
       IN  \/ /\ files' = Written(j, bytes)
              /\ jobs' = JobReturns(j, "Ok")
              /\ UNCHANGED faults
           \/ /\ MayFail
              /\ faults' = faults + 1
              /\ \E part \in Prefixes(bytes) : files' = Written(j, part)
              /\ jobs' = JobReturns(j, "Err")
    /\ UNCHANGED <<splitVars, config, stage_num, file_num, result_cell, cell_lock, pc,
                   iter, cur_vec, cur_size, result, count, prev_stage, first,
                   lines, ret, input, output>>

\* The names of the sources of a merge job, in the order first..last
SourceNames(stage, from, to) ==
    [i \in 1..(to - from) |-> <<stage, from + i - 1>>]

\* A worker takes merge job j; the closure of merge_add_files, first loop:
\* open every source
MergeJobOpen(j) ==
    /\ jobs[j].kind = "merge"
    /\ JobStart(j)
    /\ LET names == SourceNames(jobs[j].stage, jobs[j].first, jobs[j].last)
           missing == \E i \in DOMAIN names : names[i] \notin DOMAIN files
       IN  \/ /\ ~missing
              /\ jobs' = SetPc(j, "write")
              /\ UNCHANGED faults
           \/ /\ missing \/ MayFail
              /\ faults' = faults + 1
              /\ jobs' = JobReturns(j, "Err")
    /\ UNCHANGED <<splitVars, config, stage_num, file_num, result_cell, cell_lock,
                   files, pc, iter, cur_vec, cur_size, result, count,
                   prev_stage, first, lines, ret, input, output>>

\* What a merge job writes: the heap loop over the records of its sources
MergeJobBytes(stage, from, to) ==
    LET names == SourceNames(stage, from, to)
        srcs == [i \in DOMAIN names |-> file_as_lines(SrcBytes(names[i]))]
    IN  WriteAll(<<>>, MergeLoop(srcs))

\* The closure of merge_add_files: the heap, the write loop and the flush
MergeJobWrite(j) ==
    /\ jobs[j].kind = "merge"
    /\ jobs[j].pc = "write"
    /\ LET bytes == MergeJobBytes(jobs[j].stage, jobs[j].first, jobs[j].last)
       IN  \/ /\ files' = Written(j, bytes)
              /\ jobs' = [jobs EXCEPT ![j].pc = "remove",
                                      ![j].num = jobs[j].first]
              /\ UNCHANGED faults
           \/ /\ MayFail
              /\ faults' = faults + 1
              /\ \E part \in Prefixes(bytes) : files' = Written(j, part)
              /\ jobs' = JobReturns(j, "Err")
    /\ UNCHANGED <<splitVars, config, stage_num, file_num, result_cell, cell_lock, pc,
                   iter, cur_vec, cur_size, result, count, prev_stage, first,
                   lines, ret, input, output>>

\* The closure of merge_add_files, last loop: remove one source
MergeJobRemove(j) ==
    /\ jobs[j].kind = "merge"
    /\ jobs[j].pc = "remove"
    /\ LET name == <<jobs[j].stage, jobs[j].num>>
       IN  \/ /\ name \in DOMAIN files
              /\ files' = RemoveFile(files, name)
              /\ jobs' = IF jobs[j].num + 1 = jobs[j].last
                          THEN JobReturns(j, "Ok")
                          ELSE [jobs EXCEPT ![j].num = @ + 1]
              /\ UNCHANGED faults
           \/ /\ name \notin DOMAIN files \/ MayFail
              /\ faults' = faults + 1
              /\ jobs' = JobReturns(j, "Err")
              /\ UNCHANGED files
    /\ UNCHANGED <<splitVars, config, stage_num, file_num, result_cell, cell_lock, pc,
                   iter, cur_vec, cur_size, result, count, prev_stage, first,
                   lines, ret, input, output>>

\* add_to_pool: Mutex::try_lock(&res_cell) after f() returned Err
TryLock(j) ==
    /\ jobs[j].pc = "failed"
    /\ IF cell_lock = 0
       THEN /\ cell_lock' = j
            /\ jobs' = SetPc(j, "locked")
       ELSE /\ jobs' = SetPc(j, "done")
            /\ UNCHANGED cell_lock
    /\ UNCHANGED <<splitVars, config, stage_num, file_num, result_cell, files, pc, iter,
                   cur_vec, cur_size, result, count, prev_stage, first,
                   lines, ret, input, output, faults>>

\* Variant: the test of the guard is inverted, nothing is ever stored
CellStoreNever(cell, error) == IF cell # <<>> THEN <<error>> ELSE cell

\* Variant: the store is not guarded, a later error replaces the first
CellStoreAlways(cell, error) == <<error>>

\* add_to_pool: if let Ok(_) = *guard { *guard = Err(error) }
CellStore(cell, error) == IF cell = <<>> THEN <<error>> ELSE cell

\* add_to_pool: the store under the guard, then the guard is dropped
WriteCell(j) ==
    /\ jobs[j].pc = "locked"
    /\ cell_lock = j
    /\ result_cell' = CellStore(result_cell, j)
    /\ cell_lock' = 0
    /\ jobs' = SetPc(j, "done")
    /\ UNCHANGED <<splitVars, config, stage_num, file_num, files, pc, iter, cur_vec,
                   cur_size, result, count, prev_stage, first, lines, ret,
                   input, output, faults>>

\* ------------------------------------------------------------------------
\* The caller after sort returned Ok: SortedIter
\* ------------------------------------------------------------------------
\* The item Some(Err(err)) of the SortedIter
IoErrItem == <<-1>>

\* SortedIter::next when a line is left, or when the read fails; with None
\* for lines, and at the end of the file, it returns None
IterNext ==
    /\ pc = "iter"
    /\ lines # <<>>
    /\ LET recs == file_as_lines(SrcBytes(<<stage_num, 0>>))
       IN  \/ /\ lines[1] < Len(recs)
              /\ output' = Append(output, recs[lines[1] + 1])
              /\ lines' = <<lines[1] + 1>>
              /\ UNCHANGED faults
           \/ /\ MayFail
              /\ faults' = faults + 1
              /\ output' = Append(output, IoErrItem)
              /\ UNCHANGED lines
    /\ UNCHANGED <<splitVars, config, stage_num, file_num, result_cell, cell_lock,
                   files, jobs, pc, iter, cur_vec, cur_size, result, count,
                   prev_stage, first, ret, input>>

\* The SortedIter is dropped, and with it the Sort and its TempDir
IterDrop ==
    /\ pc = "iter"
    /\ pc' = "dropped"
    /\ files' = TempDirDrop(files)
    /\ UNCHANGED <<splitVars, config, stage_num, file_num, result_cell, cell_lock, jobs,
                   iter, cur_vec, cur_size, result, count, prev_stage, first,
                   lines, ret, input, output, faults>>

\* ------------------------------------------------------------------------
\* The equal-run splitter (src/split.rs) over Result<Line, Line> records
\* ------------------------------------------------------------------------
\* The records fed to the splitter: Ok("b"), Err("b") and Ok("")
OkRec(v) == [ok |-> TRUE, val |-> v]
ErrRec(v) == [ok |-> FALSE, val |-> v]
SplitRecords == { OkRec(<<98>>), ErrRec(<<98>>), OkRec(<<>>) }

\* impl IntoLine for Result<T, E>: "1" or "0", then the line of the value
result_into_line(r) ==
    IF r.ok THEN <<49>> \o into_line(r.val) ELSE <<48>> \o into_line(r.val)

\* impl FromLine for Result<T, E>: <<>> is Err(InvalidInput), <<r>> is Ok(r)
result_from_line(line) ==
    IF line # <<>> /\ line[1] = 49 THEN << OkRec(from_line(Tail(line))) >>
    ELSE IF line # <<>> /\ line[1] = 48 THEN << ErrRec(from_line(Tail(line))) >>
    ELSE <<>>

RECURSIVE SplitSeqsUpTo(_)
SplitSeqsUpTo(n) ==
    IF n = 0 THEN { <<>> }
    ELSE LET shorter == SplitSeqsUpTo(n - 1)
         IN  shorter \cup { Append(s, r) : s \in { t \in shorter : Len(t) = n - 1 },
                                           r \in SplitRecords }

\* iter.next() of the source iterator: the item and the rest
IterItem(it) == IF it = <<>> THEN <<>> ELSE <<Head(it)>>
IterRest(it) == IF it = <<>> THEN <<>> ELSE Tail(it)

\* Variant: a group ends only with the source
FinishAtEnd(next, last) == next = <<>>

\* SplitIter::next: finish = match next { None => true, Some(val) => val != last }
Finish(next, last) == next = <<>> \/ next[1] # last

\* Variant: the loop is left after its first turn, the rest of the group
\* stays in the source
SplitLoopOnce(last, it, bytes, failAt) ==
    IF failAt = 1
    THEN [err |-> TRUE, last |-> <<>>, iter |-> IterRest(it), file |-> bytes]
    ELSE [err |-> FALSE, last |-> IterItem(it), iter |-> IterRest(it),
          file |-> bytes \o result_into_line(last) \o <<NL>>]

\* SplitIter::next: the loop that writes one group to the spooled file.
\* failAt = n > 0 says that the n-th write_all from here fails.
RECURSIVE SplitLoop(_, _, _, _)
SplitLoop(last, it, bytes, failAt) ==
    LET next == IterItem(it)
        rest == IterRest(it)
    IN  IF failAt = 1
        THEN [err |-> TRUE, last |-> <<>>, iter |-> rest, file |-> bytes]
        ELSE LET written == bytes \o result_into_line(last) \o <<NL>>
             IN  IF Finish(next, last)
                 THEN [err |-> FALSE, last |-> next, iter |-> rest,
                       file |-> written]
                 ELSE SplitLoop(next[1], rest, written,
                                IF failAt = 0 THEN 0 ELSE failAt - 1)

\* Number of write_all calls of the loop when none fails
RECURSIVE GroupSize(_, _)
GroupSize(last, it) ==
    IF Finish(IterItem(it), last) THEN 1
    ELSE 1 + GroupSize(Head(it), Tail(it))

\* An item returned by SplitIter::next: Err(err), or a SameSplitIter over
\* its own file, of which read lines were read and yielded as out
Group(err, bytes) == [err |-> err, file |-> bytes, read |-> 0, out |-> <<>>]

\* split(iter): last = iter.next()
SplitInit ==
    /\ sp_input \in SplitSeqsUpTo(MaxLen)
    /\ sp_last = IterItem(sp_input)
    /\ sp_iter = IterRest(sp_input)
    /\ sp_groups = <<>>
    /\ sp_faults = 0

SplitIdle ==
    /\ sp_input = <<>>
    /\ sp_last = <<>>
    /\ sp_iter = <<>>
    /\ sp_groups = <<>>
    /\ sp_faults = 0

\* SplitIter::next with Some(last); with None it returns None
SplitIterNext ==
    /\ sp_last # <<>>
    /\ \/ \* no error: the group is written, the file is rewound
          LET r == SplitLoop(sp_last[1], sp_iter, <<>>, 0)
          IN  /\ sp_last' = r.last
              /\ sp_iter' = r.iter
              /\ sp_groups' = Append(sp_groups, Group(FALSE, r.file))
              /\ UNCHANGED sp_faults
       \/ \* a write_all fails: Some(Err(err)), last was taken
          \E n \in 1..GroupSize(sp_last[1], sp_iter) :
            LET r == SplitLoop(sp_last[1], sp_iter, <<>>, n)
            IN  /\ sp_faults < MaxFaults
                /\ sp_faults' = sp_faults + 1
                /\ sp_last' = r.last
                /\ sp_iter' = r.iter
                /\ sp_groups' = Append(sp_groups, Group(TRUE, r.file))
       \/ \* the BufWriter loses bytes when dropped, or the seek fails
          LET r == SplitLoop(sp_last[1], sp_iter, <<>>, 0)
          IN  /\ sp_faults < MaxFaults
              /\ sp_faults' = sp_faults + 1
              /\ sp_last' = r.last
              /\ sp_iter' = r.iter
              /\ \E part \in Prefixes(r.file), err \in BOOLEAN :
                   /\ (part = r.file) => err
                   /\ sp_groups' = Append(sp_groups, Group(err, part))
    /\ UNCHANGED <<sp_input, sortVars>>

\* The item Some(Err(err)) of a SameSplitIter for a failed read
IoError == [io_error |-> TRUE]

\* SameSplitIter::next of the i-th returned item when a line is left, or
\* when the read fails; at the end of the file it returns None
SameSplitIterNext(i) ==
    /\ ~sp_groups[i].err
    /\ LET ls == LinesFrom(sp_groups[i].file, 1, <<>>)
           g == sp_groups[i]
       IN  \/ /\ g.read < Len(ls)
              /\ sp_groups' = [sp_groups EXCEPT
                                 ![i].read = @ + 1,
                                 ![i].out = Append(@, result_from_line(ls[g.read + 1]))]
              /\ UNCHANGED sp_faults
           \/ /\ sp_faults < MaxFaults
              /\ sp_faults' = sp_faults + 1
              /\ sp_groups' = [sp_groups EXCEPT ![i].out = Append(@, <<IoError>>)]
    /\ UNCHANGED <<sp_input, sp_iter, sp_last, sortVars>>

SortIdle ==
    /\ config = [num_merge |-> 2, num_threads |-> 1, max_split_size |-> 1]
    /\ input = <<>>
    /\ stage_num = 0
    /\ file_num = 0
    /\ result_cell = <<>>
    /\ cell_lock = 0
    /\ files = NoFiles
    /\ jobs = <<>>
    /\ pc = "idle"
    /\ iter = <<>>
    /\ cur_vec = <<>>
    /\ cur_size = 0
    /\ result = "Ok"
    /\ count = 0
    /\ prev_stage = 0
    /\ first = 0
    /\ lines = <<>>
    /\ ret = "none"
    /\ output = <<>>
    /\ faults = 0

Coordinator ==
    \/ SplitInvokeStep
    \/ SplitInvokeEnd
    \/ JoinPool
    \/ MergeInvokeBegin
    \/ MergeInvokeStep
    \/ MergeInvokeEnd
    \/ AsIter

Worker ==
    \E j \in DOMAIN jobs :
      \/ SplitJob(j)
      \/ MergeJobOpen(j)
      \/ MergeJobWrite(j)
      \/ MergeJobRemove(j)
      \/ TryLock(j)
      \/ WriteCell(j)

Caller ==
    \/ IterNext
    \/ IterDrop

Init == SortInit /\ SplitIdle

Next == Coordinator \/ Worker \/ Caller

Spec == Init /\ [][Next]_vars

\* The coordinator and the workers keep running; the caller may stop
FairSpec == Spec /\ WF_vars(Coordinator) /\ WF_vars(Worker)

\* The splitter and its caller, who may call the outer iterator and the
\* returned sub-iterators in any order
SplitterInit == SortIdle /\ SplitInit

SplitterNext ==
    \/ SplitIterNext
    \/ \E i \in DOMAIN sp_groups : SameSplitIterNext(i)

SplitterSpec == SplitterInit /\ [][SplitterNext]_vars

\* ------------------------------------------------------------------------
\* Properties of the sorter
\* ------------------------------------------------------------------------
IsSorted(s) == \A i \in 1..(Len(s) - 1) : LineLeq(s[i], s[i + 1])

Count(s, r) == Cardinality({ i \in DOMAIN s : s[i] = r })

\* The records of the final run file
FinalRecords == file_as_lines(SrcBytes(<<stage_num, 0>>))

\* The SortedIter has nothing left to yield
IterExhausted == lines = <<>> \/ lines[1] = Len(FinalRecords)

\* C1: when no I/O error occurred, what the SortedIter has yielded is in
\* non-decreasing order and holds no record more often than the input; once
\* the iterator is exhausted it has yielded as many records as the input
\* holds, hence a permutation of the input.
C1_SortedPermutation ==
    (pc \in {"iter", "dropped"} /\ faults = 0) =>
        /\ IsSorted(output)
        /\ \A r \in Records : Count(output, r) <= Count(input, r)
        /\ (pc = "iter" /\ IterExhausted) => Len(output) = Len(input)

\* Three records, not all equal, given out of order, sorted through two
\* merge stages and read to the end
C1_Witness ==
    /\ pc = "iter"
    /\ IterExhausted
    /\ faults = 0
    /\ stage_num >= 2
    /\ Len(output) >= 3
    /\ output # input
    /\ \E i \in DOMAIN output : output[i] # output[1]

\* C2: when sort returns, it returns Ok exactly if no I/O error has
\* occurred, neither in a file operation of the coordinator nor in a job.
C2_OkIffNoError ==
    [][(ret = "none" /\ ret' # "none") => ((ret' = "Ok") <=> (faults' = 0))]_vars

\* sort returned Err for the error of a merge job alone
C2_Witness ==
    /\ ret = "Err"
    /\ result = "Ok"
    /\ stage_num >= 1
    /\ \E j \in DOMAIN jobs : jobs[j].kind = "merge" /\ jobs[j].res = "Err"

\* C3: after every merge stage that succeeded the spill directory holds
\* file_num run files, fewer than the stage before held (count); the loop
\* is never stopped by the bound on the stages; and sort returns.
C3_StagesDecreaseAndSortReturns ==
    /\ [](pc = "loop" =>
            /\ Cardinality(DOMAIN files) = file_num
            /\ (stage_num >= 1 => file_num < count)
            /\ (MoreStages(file_num) => stage_num < MaxStage))
    /\ <>(ret # "none")

\* The second merge stage has left a single run file
C3_Witness ==
    /\ pc = "loop"
    /\ stage_num = 2
    /\ count = 2
    /\ file_num = 1
    /\ Cardinality(DOMAIN files) = 1

\* C4: after sort returned Err, and after the SortedIter was dropped, the
\* spill directory holds no run file.
C4_NoFileLeft ==
    (pc \in {"returned", "dropped"}) => DOMAIN files = {}

\* sort returned Err for a merge job that failed after it had removed a
\* source, so that sources, outputs and a partial output were left
C4_Witness ==
    /\ pc = "returned"
    /\ stage_num >= 1
    /\ DOMAIN files = {}
    /\ \E j \in DOMAIN jobs :
         /\ jobs[j].kind = "merge"
         /\ jobs[j].res = "Err"
         /\ jobs[j].num > jobs[j].first

\* C5: while the SortedIter of a non-empty input lives, the final run file
\* f<stage_num>-0 exists.
C5_FinalRunExists ==
    (pc = "iter" /\ input # <<>>) => <<stage_num, 0>> \in DOMAIN files

\* The iterator over a merged run is in the middle of its file
C5_Witness ==
    /\ pc = "iter"
    /\ stage_num >= 1
    /\ lines # <<>>
    /\ lines[1] >= 1
    /\ lines[1] < Len(FinalRecords)

\* C8: sort reaches as_iter with file_num = 0 for an empty input and with
\* file_num = 1 otherwise, as_iter never panics, and an empty input creates
\* no file, submits no job, runs no merge stage, does not fail and yields
\* nothing.
C8_LastStageFileNum ==
    /\ pc # "panic"
    /\ (pc \in {"loop", "iter"} /\ ~MoreStages(file_num)) =>
           file_num = (IF input = <<>> THEN 0 ELSE 1)
    /\ (input = <<>>) =>
           /\ files = NoFiles
           /\ jobs = <<>>
           /\ stage_num = 0
           /\ ret # "Err"
           /\ output = <<>>
           /\ (pc = "iter" => lines = <<>>)

\* sort of the empty input has returned the empty iterator
C8_Witness ==
    /\ pc = "iter"
    /\ input = <<>>
    /\ ret = "Ok"
    /\ file_num = 0
    /\ lines = <<>>

\* C9: once a job returned Err, the coordinator does not get past the join
\* of the stage of that job: no later stage is begun and no job of a later
\* stage exists; and when sort returns, every job that was submitted has
\* run and returned.
C9_NoCancelNoLaterStage ==
    \A j \in DOMAIN jobs :
        (jobs[j].res = "Err") =>
            /\ jobs[j].out[1] = stage_num
            /\ pc \in {"split", "merge", "join", "returned"}
            /\ \A i \in DOMAIN jobs : jobs[i].out[1] <= jobs[j].out[1]
            /\ (pc = "returned") =>
                   \A i \in DOMAIN jobs :
                       jobs[i].pc = "done" /\ jobs[i].res # "none"

\* A merge job has failed and is done while a job submitted after it runs
C9_Witness ==
    \E j, i \in DOMAIN jobs :
        /\ j < i
        /\ jobs[j].kind = "merge"
        /\ jobs[j].res = "Err"
        /\ jobs[j].pc = "done"
        /\ jobs[i].out[1] = jobs[j].out[1]
        /\ jobs[i].pc \in {"write", "remove"}

\* Some job of the stage being written returned Err
StageFailed ==
    \E j \in DOMAIN jobs : jobs[j].res = "Err" /\ jobs[j].out[1] = stage_num

\* C10: an Err in the cell stays as it is until the join takes it; when the
\* pool is idle at the join and a job of the stage returned Err, the cell
\* holds an Err; the join leaves Ok in the cell and sort returns Err if the
\* cell held one.
C10_FirstErrorCell ==
    /\ []((pc = "join" /\ PoolIdle /\ StageFailed) => result_cell # <<>>)
    /\ []((pc \notin {"split", "merge", "join"}) => result_cell = <<>>)
    /\ [][ /\ (result_cell # <<>> /\ pc' = pc) => result_cell' = result_cell
           /\ (pc = "join" /\ pc' # "join") =>
                  /\ result_cell' = <<>>
                  /\ (result_cell # <<>> => ret' = "Err") ]_vars

\* A failed job holds the lock of the cell, which is still Ok, while another
\* failed job of the stage is done: it lost the try_lock
C10_Witness ==
    \E j, i \in DOMAIN jobs :
        /\ i # j
        /\ jobs[j].pc = "locked"
        /\ cell_lock = j
        /\ result_cell = <<>>
        /\ jobs[i].res = "Err"
        /\ jobs[i].pc = "done"
        /\ jobs[i].out[1] = jobs[j].out[1]

\* ------------------------------------------------------------------------
\* Properties of the equal-run splitter
\* ------------------------------------------------------------------------
\* The maximal runs of equal records of a sequence
RECURSIVE RunsOf(_)
RunsOf(s) ==
    IF s = <<>> THEN <<>>
    ELSE LET before == RunsOf(SubSeq(s, 1, Len(s) - 1))
             r == s[Len(s)]
         IN  IF before # <<>> /\ before[Len(before)][1] = r
             THEN [before EXCEPT ![Len(before)] = Append(@, r)]
             ELSE Append(before, <<r>>)

RECURSIVE Concat(_)
Concat(ss) == IF ss = <<>> THEN <<>> ELSE Head(ss) \o Concat(Tail(ss))

\* What the i-th sub-iterator yields when it is read to the end
GroupRecords(i) ==
    LET ls == LinesFrom(sp_groups[i].file, 1, <<>>)
    IN  [k \in 1..Len(ls) |-> result_from_line(ls[k])]

\* C6: with no I/O error, every group is non-empty and holds equal records,
\* the first records of adjacent groups differ, and once the outer iterator
\* is exhausted the groups, concatenated in order, are the input (no group
\* for the empty input).
C6_GroupsAreMaximalRuns ==
    (sp_faults = 0) =>
        /\ \A i \in DOMAIN sp_groups :
             /\ GroupRecords(i) # <<>>
             /\ \A k \in DOMAIN GroupRecords(i) :
                    GroupRecords(i)[k] = GroupRecords(i)[1]
        /\ \A i \in 1..(Len(sp_groups) - 1) :
             GroupRecords(i)[1] # GroupRecords(i + 1)[1]
        /\ (sp_last = <<>>) =>
             Concat([i \in DOMAIN sp_groups |-> GroupRecords(i)])
                 = [k \in DOMAIN sp_input |-> << sp_input[k] >>]

\* Three records in two groups, the outer iterator is exhausted
C6_Witness ==
    /\ sp_faults = 0
    /\ sp_last = <<>>
    /\ Len(sp_input) = 3
    /\ Len(sp_groups) = 2
    /\ Len(GroupRecords(1)) = 2

\* C7: with no I/O error, whatever the order of the calls, the i-th returned
\* sub-iterator holds the whole i-th run of the input from the moment it is
\* returned, what it has yielded is the beginning of that run, and the outer
\* iterator stands behind the runs it has returned.
C7_GroupsIndependent ==
    (sp_faults = 0) =>
        LET runs == RunsOf(sp_input)
            taken == Len(Concat(SubSeq(runs, 1, Len(sp_groups))))
        IN  /\ Len(sp_groups) <= Len(runs)
            /\ \A i \in DOMAIN sp_groups :
                 /\ GroupRecords(i) = [k \in DOMAIN runs[i] |-> << runs[i][k] >>]
                 /\ sp_groups[i].read <= Len(runs[i])
                 /\ sp_groups[i].out =
                        [k \in 1..sp_groups[i].read |-> << runs[i][k] >>]
            /\ sp_last \o sp_iter = SubSeq(sp_input, taken + 1, Len(sp_input))

\* The second group was requested and read to its end while the first group,
\* of two records, is read half
C7_Witness ==
    /\ sp_faults = 0
    /\ Len(sp_groups) = 2
    /\ Len(GroupRecords(1)) = 2
    /\ sp_groups[1].read = 1
    /\ sp_groups[2].read = Len(GroupRecords(2))

\* ------------------------------------------------------------------------
\* Properties of the split stage and of the merge stages
\* ------------------------------------------------------------------------
\* Summed line_len of a vector of records
RECURSIVE SumLen(_)
SumLen(v) == IF v = <<>> THEN 0 ELSE line_len(Head(v)) + SumLen(Tail(v))

\* The chunks given to split_add_file that got a job, in submission order
Chunks ==
    LET sj == SelectSeq(jobs, LAMBDA j : j.kind = "split")
    IN  [i \in DOMAIN sj |-> sj[i].data]

\* A turn of the for loop of split_invoke that did not fail
SplitTurn == pc = "split" /\ iter # <<>> /\ iter' = Tail(iter)

\* C11: every submitted chunk is non-empty and has summed line_len at most
\* max_split_size or holds one record; the chunks in submission order, then
\* the buffer, then the rest of the input are the input, and once
\* split_invoke returned Ok the chunks alone are the input; a turn of the
\* loop submits the buffer exactly when the buffer is non-empty and
\* cur_size + line_len(data) exceeds the cap, and then the new buffer holds
\* just data; otherwise data is appended to the buffer.
C11_SplitChunking ==
    /\ [](LET chunks == Chunks
          IN  \A i \in DOMAIN chunks :
                 /\ chunks[i] # <<>>
                 /\ SumLen(chunks[i]) <= config.max_split_size
                       \/ Len(chunks[i]) = 1)
    /\ []((pc = "split" \/ result = "Ok" \/ stage_num >= 1) =>
             /\ Concat(Chunks) \o cur_vec \o iter = input
             /\ (pc = "split" => cur_size = SumLen(cur_vec))
             /\ (pc # "split" => cur_vec = <<>> /\ iter = <<>>))
    /\ [][SplitTurn =>
             LET data == Head(iter)
                 over == cur_size + line_len(data) > config.max_split_size
             IN  /\ (Len(jobs') = Len(jobs) + 1) <=> (over /\ cur_vec # <<>>)
                 /\ Len(jobs') \in {Len(jobs), Len(jobs) + 1}
                 /\ (Len(jobs') = Len(jobs) + 1) =>
                        /\ jobs'[Len(jobs')].data = cur_vec
                        /\ cur_vec' = <<data>>
                 /\ (Len(jobs') = Len(jobs)) =>
                        cur_vec' = Append(cur_vec, data)]_vars

\* split_invoke returned Ok after it submitted a chunk of two records and a
\* chunk of one record longer than the cap
C11_Witness ==
    /\ pc = "join"
    /\ stage_num = 0
    /\ result = "Ok"
    /\ \E i \in DOMAIN Chunks : Len(Chunks[i]) >= 2
    /\ \E i \in DOMAIN Chunks : SumLen(Chunks[i]) > config.max_split_size

\* The job that was given the file name at its creation
WriterOf(name) == CHOOSE j \in DOMAIN jobs : jobs[j].out = name

\* The writer of job j has written every line and flushed
FlushDone(j) == jobs[j].res = "Ok" \/ jobs[j].pc = "remove"

\* The bytes of a file up to its last "\n": its complete lines
RECURSIVE CompleteBytes(_)
CompleteBytes(bytes) ==
    IF bytes = <<>> \/ bytes[Len(bytes)] = NL THEN bytes
    ELSE CompleteBytes(SubSeq(bytes, 1, Len(bytes) - 1))

\* C12 as stated: in every state every run file of the spill directory,
\* partial files included, holds a non-decreasing sequence of records.
C12_AllFilesSorted ==
    \A name \in DOMAIN files : IsSorted(file_as_lines(files[name]))

\* C12, amended: every run file whose job has written and flushed it holds
\* a non-decreasing sequence of records; any other run file (being written,
\* or left by a failed job) holds complete lines that are non-decreasing
\* records, while its last, unterminated line may be a cut record.
C12_RunsSorted ==
    \A name \in DOMAIN files :
        LET complete == CompleteBytes(files[name])
        IN  /\ \E j \in DOMAIN jobs : jobs[j].out = name
            /\ IsSorted(file_as_lines(complete))
            /\ FlushDone(WriterOf(name)) => files[name] = complete

\* A merge job returned Ok and its run holds three records, not all equal
C12_Witness ==
    \E j \in DOMAIN jobs :
        /\ jobs[j].kind = "merge"
        /\ jobs[j].res = "Ok"
        /\ jobs[j].out \in DOMAIN files
        /\ LET recs == file_as_lines(files[jobs[j].out])
           IN  Len(recs) >= 3 /\ recs[1] # recs[Len(recs)]

\* The merge jobs submitted for the stage being written, in submission order
StageJobs ==
    SelectSeq(jobs, LAMBDA j : j.kind = "merge" /\ j.out[1] = stage_num)

\* ceil(n / k)
CeilDiv(n, k) == (n + k - 1) \div k

\* The names f<stage>-0 .. f<stage>-(n-1)
StageNames(stage, n) == { <<stage, i>> : i \in 0..(n - 1) }

\* C13: a merge stage runs over count >= 2 files; its i-th job is given the
\* range [(i-1)*k, min(count, i*k)) of the stage before, which is not empty,
\* and the i-th file of the new stage; the loop of merge_invoke stands at the
\* end of the last range submitted; when merge_invoke returned Ok the ranges
\* cover [0, count) with ceil(count / k) jobs; after the stage succeeded the
\* directory holds exactly the ceil(count / k) files of the new stage; and
\* a job over a single source writes a copy of it and removes it.
C13_MergePartition ==
    (pc \in {"merge", "join", "loop"} /\ stage_num >= 1) =>
        LET sj == StageJobs
            k == config.num_merge
        IN  /\ count >= 2
            /\ \A i \in DOMAIN sj :
                 /\ sj[i].stage = prev_stage
                 /\ sj[i].first = (i - 1) * k
                 /\ sj[i].last = Min(count, i * k)
                 /\ sj[i].first < sj[i].last
                 /\ sj[i].out = <<stage_num, i - 1>>
                 /\ (sj[i].last = sj[i].first + 1 /\ sj[i].pc = "remove") =>
                        files[sj[i].out] = files[<<prev_stage, sj[i].first>>]
                 /\ (sj[i].res = "Ok") =>
                        /\ sj[i].out \in DOMAIN files
                        /\ \A n \in sj[i].first..(sj[i].last - 1) :
                               <<prev_stage, n>> \notin DOMAIN files
            /\ (pc = "merge") =>
                   first = (IF sj = <<>> THEN 0 ELSE sj[Len(sj)].last)
            /\ (pc = "loop" \/ (pc = "join" /\ result = "Ok")) =>
                   /\ Len(sj) = CeilDiv(count, k)
                   /\ sj[Len(sj)].last = count
            /\ (pc = "loop") =>
                   /\ file_num = CeilDiv(count, k)
                   /\ DOMAIN files = StageNames(stage_num, file_num)

\* A stage over three files succeeded with k = 2: two files are left, the
\* second one written by the job over the single file of the last range
C13_Witness ==
    /\ pc = "loop"
    /\ stage_num = 1
    /\ count = 3
    /\ config.num_merge = 2
    /\ file_num = 2
    /\ StageJobs[2].first = 2
    /\ StageJobs[2].last = 3
    /\ StageJobs[2].res = "Ok"

\* ------------------------------------------------------------------------
\* A merge job on its own: merge_add_files(0, 0, n) was called over n source
\* runs, each a sorted run (possibly without any line), and its job runs
\* ------------------------------------------------------------------------
SortedRuns == { r \in SeqsUpTo(MaxRun) : IsSorted(r) }

MergeJobInit ==
    /\ \E n \in 1..MaxSources : \E runs \in [1..n -> SortedRuns] :
         /\ files = [name \in StageNames(0, n) \cup {<<1, 0>>} |->
                        IF name = <<1, 0>> THEN <<>>
                        ELSE WriteAll(<<>>, runs[name[2] + 1])]
         /\ jobs = << Job("merge", <<>>, 0, 0, n, <<1, 0>>) >>
         /\ count = n
         /\ first = n
    /\ config = [num_merge |-> MaxSources, num_threads |-> 1,
                 max_split_size |-> 1]
    /\ input = <<>>
    /\ stage_num = 1
    /\ file_num = 1
    /\ result_cell = <<>>
    /\ cell_lock = 0
    /\ pc = "idle"
    /\ iter = <<>>
    /\ cur_vec = <<>>
    /\ cur_size = 0
    /\ result = "Ok"
    /\ prev_stage = 0
    /\ lines = <<>>
    /\ ret = "none"
    /\ output = <<>>
    /\ faults = 0

MergeNext ==
    \E j \in DOMAIN jobs :
      \/ MergeJobOpen(j)
      \/ MergeJobWrite(j)
      \/ MergeJobRemove(j)
      \/ TryLock(j)
      \/ WriteCell(j)

MergeInit == MergeJobInit /\ SplitIdle

MergeSpec == MergeInit /\ [][MergeNext]_vars

\* The records of the sources of merge job j, in the order first..last
JobSources(j) ==
    LET names == SourceNames(jobs[j].stage, jobs[j].first, jobs[j].last)
    IN  [i \in DOMAIN names |-> file_as_lines(SrcBytes(names[i]))]

\* Number of the first n - 1 pops that came from source i
Consumed(pops, n, i) == Cardinality({ m \in 1..(n - 1) : pops[m][2] = i })

\* Every pop is the head of its source at that moment and is least among
\* the heads of the sources not yet exhausted, the lower index first among
\* equal records; and every record of every source is popped
PopsAreLeastHeads(pops, srcs) ==
    /\ Len(pops) = Len(Concat(srcs))
    /\ \A n \in DOMAIN pops :
         LET idx == pops[n][2]
         IN  /\ idx \in DOMAIN srcs
             /\ Consumed(pops, n, idx) < Len(srcs[idx])
             /\ pops[n][1] = srcs[idx][Consumed(pops, n, idx) + 1]
             /\ \A i \in DOMAIN srcs :
                    Consumed(pops, n, i) < Len(srcs[i]) =>
                        LET head == srcs[i][Consumed(pops, n, i) + 1]
                        IN  /\ LineLeq(pops[n][1], head)
                            /\ (pops[n][1] = head => idx <= i)

\* The merge job j has flushed its run and has removed no source yet
JustFlushed(j) ==
    jobs[j].kind = "merge" /\ jobs[j].pc = "remove" /\ jobs[j].num = jobs[j].first

\* C14: the pops of a merge job over sorted sources are, one after the
\* other, the least of the current heads of its sources, ties going to the
\* lower source index, and exhaust every source; the run it has flushed
\* holds the popped records in that order, which is non-decreasing and the
\* multiset union of the records of the sources.
C14_MergeJobOutput ==
    \A j \in DOMAIN jobs :
        /\ (jobs[j].kind = "merge" /\ jobs[j].pc = "write") =>
               PopsAreLeastHeads(MergePops(JobSources(j)), JobSources(j))
        /\ JustFlushed(j) =>
               LET pops == MergePops(JobSources(j))
                   recs == file_as_lines(files[jobs[j].out])
               IN  /\ recs = [n \in DOMAIN pops |-> pops[n][1]]
                   /\ files[jobs[j].out] = WriteAll(<<>>, recs)
                   /\ IsSorted(recs)
                   /\ \A r \in Records :
                          Count(recs, r) = Count(Concat(JobSources(j)), r)

\* A job has flushed the merge of two sources of two records each that
\* share a record: the tie went to the first source, and the second record
\* of a source was pushed after its first was popped
C14_Witness ==
    \E j \in DOMAIN jobs :
        /\ JustFlushed(j)
        /\ LET srcs == JobSources(j)
               pops == MergePops(srcs)
           IN  /\ Len(srcs) = 2
               /\ Len(srcs[1]) = 2
               /\ Len(srcs[2]) = 2
               /\ srcs[1][2] = srcs[2][1]
               /\ srcs[1][1] # srcs[1][2]
               /\ pops[2][2] = 1
               /\ pops[3][2] = 2
               /\ Len(file_as_lines(files[jobs[j].out])) = 4

\* ------------------------------------------------------------------------
\* Run files and the jobs that write, read and remove them
\* ------------------------------------------------------------------------
\* The spill directory exists: the Sort or its SortedIter is alive
TempDirAlive == pc \notin {"returned", "dropped", "panic"}

\* The records of the chunks that went into the run file name
RECURSIVE Under(_)
Under(name) ==
    LET j == WriterOf(name)
    IN  IF jobs[j].kind = "split" THEN jobs[j].data
        ELSE Concat([i \in 1..(jobs[j].last - jobs[j].first) |->
                        Under(<<jobs[j].stage, jobs[j].first + i - 1>>)])

\* The file name holds every record that went into it, each as often
HoldsAll(name) ==
    LET recs == file_as_lines(files[name])
        under == Under(name)
    IN  /\ files[name] = CompleteBytes(files[name])
        /\ Len(recs) = Len(under)
        /\ \A r \in Records : Count(recs, r) = Count(under, r)

\* Some source file of merge job j is not in the directory
SourceMissing(j) ==
    \E n \in jobs[j].first..(jobs[j].last - 1) :
        <<jobs[j].stage, n>> \notin DOMAIN files

\* C15: while the spill directory exists, a run file that was flushed holds
\* all the records that went into it; if a source of a merge job of the
\* current stage is missing, the job has flushed its output, which is in the
\* directory and holds all records of all its sources; a file is removed
\* only by a merge job that has flushed, which removes its own next source
\* and leaves its output as it is; and a job that returns Err from the
\* opening, the reading or the writing has all its sources in the directory.
C15_DeleteAfterFlush ==
    /\ [](TempDirAlive =>
            /\ \A name \in DOMAIN files :
                   FlushDone(WriterOf(name)) => HoldsAll(name)
            /\ \A j \in DOMAIN jobs :
                   (jobs[j].kind = "merge" /\ jobs[j].out[1] = stage_num
                       /\ SourceMissing(j)) =>
                       /\ jobs[j].pc \notin {"queued", "write"}
                       /\ jobs[j].out \in DOMAIN files
                       /\ HoldsAll(jobs[j].out))
    /\ [][TempDirAlive' =>
            /\ \A name \in (DOMAIN files) \ (DOMAIN files') :
                   \E j \in DOMAIN jobs :
                       /\ jobs[j].kind = "merge"
                       /\ jobs[j].pc = "remove"
                       /\ name = <<jobs[j].stage, jobs[j].num>>
                       /\ HoldsAll(jobs[j].out)
                       /\ files'[jobs[j].out] = files[jobs[j].out]
            /\ \A j \in DOMAIN jobs :
                   (jobs[j].kind = "merge" /\ jobs[j].pc \in {"queued", "write"}
                       /\ jobs'[j].res = "Err") =>
                       /\ ~SourceMissing(j)
                       /\ \A n \in jobs[j].first..(jobs[j].last - 1) :
                              <<jobs[j].stage, n>> \in DOMAIN files']_vars

\* A merge job over two sources has flushed a run of two different records
\* and has removed its first source, not yet its second
C15_Witness ==
    \E j \in DOMAIN jobs :
        /\ jobs[j].kind = "merge"
        /\ jobs[j].pc = "remove"
        /\ jobs[j].last = jobs[j].first + 2
        /\ jobs[j].num = jobs[j].first + 1
        /\ <<jobs[j].stage, jobs[j].first>> \notin DOMAIN files
        /\ <<jobs[j].stage, jobs[j].first + 1>> \in DOMAIN files
        /\ LET recs == file_as_lines(files[jobs[j].out])
           IN  Len(recs) >= 2 /\ recs[1] # recs[2]

\* The file name is a source of job j (a split job has none)
IsSource(name, j) ==
    /\ jobs[j].kind = "merge"
    /\ name[1] = jobs[j].stage
    /\ jobs[j].first <= name[2]
    /\ name[2] < jobs[j].last

\* The source files of job j
SourceSet(j) ==
    IF jobs[j].kind = "merge"
    THEN { <<jobs[j].stage, n>> : n \in jobs[j].first..(jobs[j].last - 1) }
    ELSE {}

\* The jobs that read and remove the file name
Readers(name) == { j \in DOMAIN jobs : IsSource(name, j) }

\* The files job j has open: its output from its submission until its
\* closure returns, its sources from their opening until it returns
OpenFiles(j) ==
    IF jobs[j].pc \in {"failed", "locked", "done"} THEN {}
    ELSE {jobs[j].out} \cup
         (IF jobs[j].pc \in {"write", "remove"} THEN SourceSet(j) ELSE {})

\* merge_invoke has returned Ok for the stage that reads the files of stage
MergeSubmitted(stage) ==
    \/ stage + 1 < stage_num
    \/ /\ stage + 1 = stage_num
       /\ pc \in {"loop", "iter", "dropped"} \/ (pc \in {"join", "returned"} /\ result = "Ok")

\* C16: every run file was given to exactly one job as its output, and no
\* name is given twice; a run file is a source of at most one job, a merge
\* job of the next stage, and of exactly one once merge_invoke has submitted
\* that stage; a job with a source exists only when the job that wrote the
\* source is done and returned Ok; no file is open in two jobs at a time; a
\* file is removed only by the job that reads it, after that job has read it
\* and flushed, and after its writer is done.  (The run of the last stage is
\* read by the SortedIter and goes with the directory.)
C16_ExclusiveRunFiles ==
    /\ [](/\ \A name \in DOMAIN files :
                \E j \in DOMAIN jobs : jobs[j].out = name
          /\ \A i, j \in DOMAIN jobs :
                (i < j) =>
                    /\ jobs[i].out # jobs[j].out
                    /\ OpenFiles(i) \cap OpenFiles(j) = {}
          /\ \A j \in DOMAIN jobs :
                /\ \A name \in SourceSet(j) :
                       /\ \E i \in DOMAIN jobs : jobs[i].out = name
                       /\ jobs[j].out[1] = name[1] + 1
                       /\ jobs[WriterOf(name)].pc = "done"
                       /\ jobs[WriterOf(name)].res = "Ok"
                       /\ \A k \in DOMAIN jobs : (k # j) => ~IsSource(name, k)
                /\ MergeSubmitted(jobs[j].out[1]) =>
                       Cardinality(Readers(jobs[j].out)) = 1)
    /\ [][TempDirAlive' =>
            \A name \in (DOMAIN files) \ (DOMAIN files') :
                \E j \in Readers(name) :
                    /\ jobs[j].pc = "remove"
                    /\ jobs[WriterOf(name)].pc = "done"
                    /\ Readers(name) = {j}]_vars

\* Two merge jobs of a stage have opened their sources and run side by side
C16_Witness ==
    \E i, j \in DOMAIN jobs :
        /\ i # j
        /\ jobs[i].kind = "merge"
        /\ jobs[j].kind = "merge"
        /\ jobs[i].pc = "write"
        /\ jobs[j].pc = "remove"
        /\ jobs[i].out[1] = jobs[j].out[1]
        /\ SourceSet(i) # {}
        /\ SourceSet(j) # {}

\* The jobs submitted for the stage being written, in submission order
CurStageJobs == SelectSeq(jobs, LAMBDA j : j.out[1] = stage_num)

\* C17: while a stage is being written and until the next one begins, the
\* jobs submitted for it were given, in submission order, the files
\* f<stage_num>-0 .. f<stage_num>-(file_num-1), which are exactly the files
\* of that stage in the directory; a step of the coordinator that increments
\* file_num creates the file f<stage_num>-<file_num>, which did not exist,
\* and submits one job for it; a step in which File::create fails leaves
\* file_num, the directory and the jobs as they are.
C17_FileNumIsNextIndex ==
    /\ []((pc \in {"split", "merge", "join", "loop"}) =>
            /\ Len(CurStageJobs) = file_num
            /\ \A i \in DOMAIN CurStageJobs :
                   CurStageJobs[i].out = <<stage_num, i - 1>>
            /\ { name \in DOMAIN files : name[1] = stage_num }
                   = StageNames(stage_num, file_num)
            /\ get_cur_file_name \notin DOMAIN files)
    /\ [][(file_num' = file_num + 1) =>
              /\ stage_num' = stage_num
              /\ DOMAIN files' = DOMAIN files \cup {<<stage_num, file_num>>}
              /\ files'[<<stage_num, file_num>>] = <<>>
              /\ Len(jobs') = Len(jobs) + 1
              /\ jobs'[Len(jobs')].out = <<stage_num, file_num>>]_vars
    /\ [][(pc \in {"split", "merge"} /\ result' = "Err") =>
              /\ faults' = faults + 1
              /\ file_num' = file_num
              /\ stage_num' = stage_num
              /\ files' = files
              /\ jobs' = jobs]_vars

\* In a merge stage over three files the first File::create succeeded and
\* the second one failed: one file, one job, file_num = 1
C17_Witness ==
    /\ pc = "join"
    /\ result = "Err"
    /\ stage_num = 1
    /\ count = 3
    /\ first = 2
    /\ file_num = 1
    /\ Len(CurStageJobs) = 1

\* The step is the stage transition: next_stage() in merge_invoke
StageTransition == pc = "loop" /\ pc' = "merge"

\* C18 as stated: every step but the stage transition leaves stage_num and
\* file_num unchanged.
C18_OnlyStageTransitionMutates ==
    [][~StageTransition => (stage_num' = stage_num /\ file_num' = file_num)]_vars

\* C18, amended: stage_num changes only in the stage transition, which adds
\* one to it and sets file_num to 0; file_num changes, besides, only in a
\* step of split_invoke or merge_invoke that created a file and submitted
\* its job, which adds one to it; the join, as_iter, the SortedIter and every
\* step of a worker leave both counters unchanged.
C18_CountersFrame ==
    [][/\ StageTransition =>
              (stage_num' = stage_num + 1 /\ file_num' = 0)
       /\ (stage_num' # stage_num) => StageTransition
       /\ (file_num' # file_num /\ ~StageTransition) =>
              /\ pc \in {"split", "merge"}
              /\ file_num' = file_num + 1
              /\ Len(jobs') = Len(jobs) + 1
              /\ DOMAIN files' # DOMAIN files
       /\ (pc \in {"join", "iter"} \/ pc' \in {"iter", "returned", "panic"}
              \/ (jobs' # jobs /\ Len(jobs') = Len(jobs))) =>
              (stage_num' = stage_num /\ file_num' = file_num)]_vars

\* The second merge stage is being written: two stage transitions, and the
\* first file of the stage was created
C18_Witness ==
    /\ pc = "merge"
    /\ stage_num = 2
    /\ file_num = 1
    /\ first = count

\* C19: once sort has returned (or panicked) every submitted job is done:
\* none is queued, none runs, none holds a file; no job is submitted after
\* the return; and a step that destroys the spill directory is taken only
\* when no job holds a file.
C19_JoinedBeforeReturn ==
    /\ []((ret # "none" \/ ~TempDirAlive) =>
            /\ PoolIdle
            /\ \A j \in DOMAIN jobs : OpenFiles(j) = {} /\ jobs[j].res # "none")
    /\ [][(ret # "none") => Len(jobs') = Len(jobs)]_vars
    /\ [][(TempDirAlive /\ ~TempDirAlive') =>
              /\ PoolIdle
              /\ \A j \in DOMAIN jobs : OpenFiles(j) = {}]_vars

\* File::create failed in merge_invoke after a job of the stage had been
\* submitted; sort returned Err and that job has run to its end
C19_Witness ==
    /\ pc = "returned"
    /\ ret = "Err"
    /\ result = "Err"
    /\ stage_num >= 1
    /\ \E j \in DOMAIN jobs :
         /\ jobs[j].kind = "merge"
         /\ jobs[j].out[1] = stage_num
         /\ jobs[j].res = "Ok"
         /\ jobs[j].pc = "done"

\* ------------------------------------------------------------------------
\* The sorter with num_merge = 0 or 1
\* ------------------------------------------------------------------------
SmallMergeConfigs == [num_merge : 0..1, num_threads : {1, MaxThreads},
                      max_split_size : 1..MaxSplitSize]

\* Sort::new followed by the call of sort(iter), with num_merge <= 1
SmallMergeSortInit ==
    /\ config \in SmallMergeConfigs
    /\ input \in Inputs
    /\ stage_num = 0
    /\ file_num = 0
    /\ result_cell = <<>>
    /\ cell_lock = 0
    /\ files = NoFiles
    /\ jobs = <<>>
    /\ pc = "split"
    /\ iter = input
    /\ cur_vec = <<>>
    /\ cur_size = 0
    /\ result = "Ok"
    /\ count = 0
    /\ prev_stage = 0
    /\ first = 0
    /\ lines = <<>>
    /\ ret = "none"
    /\ output = <<>>
    /\ faults = 0

SmallMergeInit == SmallMergeSortInit /\ SplitIdle

SmallMergeSpec == SmallMergeInit /\ [][Next]_vars

FairSmallMergeSpec ==
    SmallMergeSpec /\ WF_vars(Coordinator) /\ WF_vars(Worker)

\* split_invoke has submitted at least two stage-0 runs
TwoRuns == Len(Chunks) >= 2

\* C20 as stated: with num_merge <= 1 and at least two stage-0 run files
\* sort never returns.
C20_NeverReturns ==
    (config.num_merge <= 1 /\ TwoRuns) => ret = "none"

\* C20, amended: with num_merge <= 1 and at least two stage-0 run files sort
\* never returns Ok, and returns Err only for an I/O error; with
\* num_merge = 1 a merge stage that succeeded has written as many run files
\* as it consumed, so that the test file_num > 1 holds again; with
\* num_merge = 0 the loop of merge_invoke keeps first at 0, submits nothing
\* and is never left; and when split_invoke submits at most one run, sort
\* returns.
C20_SmallMergeNeverEnds ==
    /\ [](TwoRuns =>
            /\ ret # "Ok"
            /\ (ret = "Err" => faults > 0)
            /\ (pc = "loop" => MoreStages(file_num))
            /\ (pc = "loop" /\ stage_num >= 1) =>
                   (config.num_merge = 1 /\ file_num = count)
            /\ (pc = "merge" /\ config.num_merge = 0) =>
                   (first = 0 /\ first # count /\ file_num = 0
                       /\ StageJobs = <<>> /\ stage_num = 1))
    /\ [][(pc = "merge" /\ config.num_merge = 0) => pc' = "merge"]_vars
    /\ <>(ret # "none" \/ TwoRuns)

\* With num_merge = 1 the third merge stage over three runs has succeeded
\* without any I/O error and has left three runs
C20_Witness ==
    /\ config.num_merge = 1
    /\ pc = "loop"
    /\ stage_num = 3
    /\ count = 3
    /\ file_num = 3
    /\ faults = 0
    /\ ret = "none"

====
